---- MODULE Spec2Model ----
(***************************************************************************)
(* Financial data dashboard: the Close-series resolver, the rolling        *)
(* average, the metrics and chart functions, and the click handler of the  *)
(* dashboard shell, in the modular variant (data.py, metrics.py, plots.py, *)
(* app.py) and in the single-file variant (financialdata.py, prefix fd_).  *)
(***************************************************************************)
EXTENDS Integers, Sequences, FiniteSets, TLC

\* ------------------------------------------------------------------ bounds
\* longest price series (rows of a series or of a price table)
MaxRows == 3
\* prices are drawn from 0..MaxVal
MaxVal == 2
\* most columns, and most rows, of the tables that vary the column labels
MaxCols == 2
MaxLabelRows == 1
\* largest rolling window
MaxWindow == 3
\* longest ticker list of a click
MaxTickers == 2
\* rows of the long price history: more than the window of the chart
LongRows == 31

\* ------------------------------------------------------------- data values
\* Column labels are tuples of levels: <<"Close">> is a flat label,
\* <<"Close", "AAPL">> a two-level (MultiIndex) label.
FlatNames == {"Close", "close", "Adj Close", "High", "Low", "Volume", "Note"}

FlatLabels == {<<s>> : s \in FlatNames}

MultiLabels ==
    {<<"Close", "AAPL">>, <<"Close", "MSFT">>, <<"Adj Close", "AAPL">>,
     <<"Volume", "AAPL">>, <<"AAPL", "Close">>, <<"AAPL", "Volume">>}

\* str.lower() on the strings that occur as label levels
Lower(s) ==
    CASE s = "Close" -> "close"
      [] s = "close" -> "close"
      [] s = "Adj Close" -> "adj close"
      [] s = "High" -> "high"
      [] s = "Low" -> "low"
      [] s = "Volume" -> "volume"
      [] s = "Note" -> "note"
      [] s = "Price" -> "price"
      [] s = "AAPL" -> "aapl"
      [] s = "MSFT" -> "msft"
      [] OTHER -> s

\* str(col).lower(): a flat label is its string, a tuple label prints as a
\* tuple, "('close', 'aapl')"
StrLower(col) ==
    IF Len(col) = 1 THEN Lower(col[1])
    ELSE "('" \o Lower(col[1]) \o "', '" \o Lower(col[2]) \o "')"

\* the alias tuple tested by the resolver
Aliases == {"close", "adj close", "adj_close", "adjclose"}

\* the alias list of the single-file resolver, in its order
AliasList == <<"close", "adj close", "adj_close", "adjclose">>

None == [kind |-> "None"]

Series(name, values) == [kind |-> "Series", name |-> name, values |-> values]

\* the values of column j of a table built on the price series base
ColVals(base, j) == [k \in 1..Len(base) |-> (base[k] + j - 1) % (MaxVal + 1)]

DataFrame(multi, columns, base) ==
    [kind |-> "DataFrame", multi |-> multi, columns |-> columns,
     cols |-> [j \in 1..Len(columns) |-> ColVals(base, j)],
     nrows |-> Len(base), text |-> {}]

\* a table whose column j holds text instead of numbers
WithText(df, j) == [df EXCEPT !.text = {j}]

\* the dtype of column j of a table: a column named "Note" and the columns
\* marked as text are "object", every other column holds numbers
DType(data, j) ==
    IF data.columns[j][1] = "Note" \/ j \in data.text THEN "object" ELSE "number"

\* sequences over S of length at most n
SeqUpTo(S, n) == UNION {[1..k -> S] : k \in 0..n}

\* label sequences without a repeated label (one column per label)
Distinct(s) == \A i, j \in DOMAIN s : i # j => s[i] # s[j]

ValueSeqs == SeqUpTo(0..MaxVal, MaxRows)

SeriesInputs == {Series(<<nm>>, v) : nm \in {"Close", "Price"}, v \in ValueSeqs}

\* tables that vary the labels and their order: flat and two-level
FlatTables ==
    {DataFrame(FALSE, c, v) :
        c \in {s \in SeqUpTo(FlatLabels, MaxCols) : Distinct(s)},
        v \in SeqUpTo(0..MaxVal, MaxLabelRows)}

MultiTables ==
    {DataFrame(TRUE, c, v) :
        c \in {s \in SeqUpTo(MultiLabels, MaxCols) : Distinct(s)},
        v \in SeqUpTo(0..MaxVal, MaxLabelRows)}

\* tables that vary the prices: the columns are some of Close, High, Low and
\* Volume, in that order
PriceColumns == <<"Close", "High", "Low", "Volume">>

RECURSIVE SubSeqs(_)
SubSeqs(s) ==
    IF s = <<>> THEN {<<>>}
    ELSE SubSeqs(Tail(s)) \cup {<<<<s[1]>>>> \o t : t \in SubSeqs(Tail(s))}

PriceTables == {DataFrame(FALSE, c, v) : c \in SubSeqs(PriceColumns), v \in ValueSeqs}

\* price tables one of whose High, Low and Volume columns holds text
TextTables ==
    UNION {{WithText(t, j) : j \in {k \in DOMAIN t.columns : t.columns[k] # <<"Close">>}} :
              t \in PriceTables}

Inputs ==
    {None} \cup SeriesInputs \cup FlatTables \cup MultiTables \cup PriceTables
           \cup TextTables

\* ------------------------------------------------------- pandas primitives
\* len(x) of a Series or DataFrame
PyLen(x) == IF x.kind = "Series" THEN Len(x.values) ELSE x.nrows

\* DataFrame.empty: some axis has length 0
Empty(x) ==
    IF x.kind = "Series" THEN Len(x.values) = 0
    ELSE x.nrows = 0 \/ Len(x.columns) = 0

\* isinstance(data, pd.DataFrame) and name in data.columns (flat labels; for
\* two-level labels the test looks the name up in the first level)
HasColumn(data, name) ==
    /\ data.kind = "DataFrame"
    /\ \E j \in DOMAIN data.columns : data.columns[j][1] = name

\* the first index of a loop that a condition accepts, 0 when none
FirstIdx(S) == IF S = {} THEN 0 ELSE CHOOSE j \in S : \A k \in S : j <= k

\* data[col] for a full label: the column carrying that label
GetItem(data, col) ==
    LET j == FirstIdx({k \in DOMAIN data.columns : data.columns[k] = col})
    IN  Series(col, data.cols[j])

\* Series.rename(name)
Rename(s, name) == Series(<<name>>, s.values)

\* ------------------------------------------------- data.py: the resolver
\* the scan without the MultiIndex branch
ResolveColumns_FlatOnly(data) ==
    LET cols == data.columns
        flat == {j \in DOMAIN cols : StrLower(cols[j]) \in Aliases}
    IN  IF flat # {} THEN GetItem(data, cols[FirstIdx(flat)])
        ELSE None

\* the scan with a fallback to the first column that holds numbers
ResolveColumns_NumericFallback(data) ==
    LET cols == data.columns
        anyLevel == IF data.multi
                    THEN {j \in DOMAIN cols :
                             \E l \in DOMAIN cols[j] : Lower(cols[j][l]) \in Aliases}
                    ELSE {}
        flat == {j \in DOMAIN cols : StrLower(cols[j]) \in Aliases}
        numeric == {j \in DOMAIN cols : DType(data, j) = "number"}
    IN  IF anyLevel # {} THEN GetItem(data, cols[FirstIdx(anyLevel)])
        ELSE IF flat # {} THEN GetItem(data, cols[FirstIdx(flat)])
        ELSE IF numeric # {} THEN GetItem(data, cols[FirstIdx(numeric)])
        ELSE None

\* lines 34-51: the scan of the column labels of a table
ResolveColumns(data) ==
    LET cols == data.columns
        anyLevel == IF data.multi
                    THEN {j \in DOMAIN cols :
                             \E l \in DOMAIN cols[j] : Lower(cols[j][l]) \in Aliases}
                    ELSE {}
        flat == {j \in DOMAIN cols : StrLower(cols[j]) \in Aliases}
    IN  IF anyLevel # {} THEN GetItem(data, cols[FirstIdx(anyLevel)])
        ELSE IF flat # {} THEN GetItem(data, cols[FirstIdx(flat)])
        ELSE None

get_close_series_KeepName(data) ==
    IF data.kind = "None" THEN None
    ELSE IF data.kind = "Series" THEN data
    ELSE ResolveColumns(data)

get_close_series_NoneAsEmpty(data) ==
    IF data.kind = "None" THEN Series(<<"Close">>, <<>>)
    ELSE IF data.kind = "Series" THEN Rename(data, "Close")
    ELSE ResolveColumns(data)

_get_close_series(data) ==
    IF data.kind = "None" THEN None
    ELSE IF data.kind = "Series" THEN Rename(data, "Close")
    ELSE ResolveColumns(data)

\* ------------------------------------------ financialdata.py: the resolver
fd_get_close_series(data) ==
    IF data.kind = "None" THEN None
    ELSE IF data.kind = "Series" THEN Rename(data, "Close")
    ELSE
      LET cols == data.columns
          field == IF data.multi
                   THEN {j \in DOMAIN cols : Lower(cols[j][1]) = "close"}
                   ELSE {}
          anyClose == IF data.multi
                      THEN {j \in DOMAIN cols :
                               \E l \in DOMAIN cols[j] : cols[j][l] = "Close"}
                      ELSE {}
          exact == {j \in DOMAIN cols : ~data.multi /\ cols[j] = <<"Close">>}
          alt(a) == {j \in DOMAIN cols : StrLower(cols[j]) = AliasList[a]}
          alts == {a \in DOMAIN AliasList : alt(a) # {}}
          numeric == {j \in DOMAIN cols : DType(data, j) = "number"}
      IN  IF field # {} THEN GetItem(data, cols[FirstIdx(field)])
          ELSE IF anyClose # {} THEN GetItem(data, cols[FirstIdx(anyClose)])
          ELSE IF exact # {} THEN GetItem(data, <<"Close">>)
          ELSE IF alts # {} THEN GetItem(data, cols[FirstIdx(alt(FirstIdx(alts)))])
          ELSE IF numeric # {} THEN GetItem(data, cols[FirstIdx(numeric)])
          ELSE None

\* ----------------------------------------------------------------- numbers
\* A float is NaN or the exact quotient num/den (den > 0).
NaN == [nan |-> TRUE, num |-> 0, den |-> 1]

Num(num, den) == [nan |-> FALSE, num |-> num, den |-> den]

\* an exception leaving a function
Raise(exc) == [kind |-> "Raise", exc |-> exc]

\* ----------------------------------------------- Series.rolling(w).mean()
\* pandas keeps a running sum over the window: the entering value is added,
\* the leaving one subtracted; a position with fewer than min_periods
\* observations is NaN, and min_periods defaults to the window.
RECURSIVE RollSum(_, _, _)
RollSum(v, w, i) ==
    IF i = 0 THEN 0
    ELSE RollSum(v, w, i - 1) + v[i] - (IF i > w THEN v[i - w] ELSE 0)

RollCount(w, i) == IF i < w THEN i ELSE w

RollingMean_MinPeriodsOne(s, w) ==
    Series(s.name,
           [i \in 1..Len(s.values) |-> Num(RollSum(s.values, w, i), RollCount(w, i))])

RollingMean(s, w) ==
    Series(s.name,
           [i \in 1..Len(s.values) |->
               IF RollCount(w, i) >= w
               THEN Num(RollSum(s.values, w, i), RollCount(w, i))
               ELSE NaN])

\* ------------------------------------------------- data.py: rolling_average
\* len(None) raises TypeError
rolling_average(data, window) ==
    LET close == _get_close_series(data)
    IN  IF close.kind = "None"
        THEN IF data.kind = "None" THEN Raise("TypeError")
             ELSE Series(<<>>, [i \in 1..PyLen(data) |-> NaN])
        ELSE RollingMean(close, window)

\* ---------------------------------------- financialdata.py: rolling_average
fd_rolling_average(data, window) ==
    LET close == fd_get_close_series(data)
    IN  IF close.kind = "None" THEN Series(<<>>, <<>>)
        ELSE RollingMean(close, window)

\* ------------------------------------------------------ series arithmetic
RECURSIVE SeqSum(_)
SeqSum(v) == IF v = <<>> THEN 0 ELSE v[1] + SeqSum(Tail(v))

\* Series.max(), Series.min(), Series.mean(): NaN on an empty series
SeqMax(v) ==
    IF v = <<>> THEN NaN
    ELSE Num(CHOOSE x \in {v[k] : k \in DOMAIN v} : \A k \in DOMAIN v : v[k] <= x, 1)

SeqMin(v) ==
    IF v = <<>> THEN NaN
    ELSE Num(CHOOSE x \in {v[k] : k \in DOMAIN v} : \A k \in DOMAIN v : x <= v[k], 1)

SeqMean(v) == IF v = <<>> THEN NaN ELSE Num(SeqSum(v), Len(v))

\* the increasing sequence of a finite set of indices
RECURSIVE SortedSeq(_)
SortedSeq(S) ==
    IF S = {} THEN <<>> ELSE <<FirstIdx(S)>> \o SortedSeq(S \ {FirstIdx(S)})

\* Series.pct_change(): NaN first, then v[k]/v[k-1] - 1 in float arithmetic,
\* where x/0 is infinite (den = 0) and 0/0 is NaN
PctChange(v) ==
    [k \in 1..Len(v) |->
        IF k = 1 THEN NaN
        ELSE IF v[k - 1] = 0 THEN (IF v[k] = 0 THEN NaN ELSE Num(1, 0))
        ELSE Num(v[k] - v[k - 1], v[k - 1])]

\* Series.std(): sample deviation (ddof = 1) of the values that are not NaN;
\* NaN with fewer than 2 of them or with an infinite one; the model keeps
\* whether the deviation is NaN and whether it is zero
Std(r) ==
    LET valid == {k \in DOMAIN r : ~r[k].nan}
        isNan == Cardinality(valid) < 2 \/ \E k \in valid : r[k].den = 0
    IN  [nan |-> isNan,
         zero |-> ~isNan /\ \A k, l \in valid :
                               r[k].num * r[l].den = r[l].num * r[k].den]

\* ((current / start) - 1) * 100 on Python floats
TotalReturn(current, start) == Num(100 * (current - start), start)

\* the columns of a table whose (first-level) name is name
ColsNamed(data, name) == {j \in DOMAIN data.columns : data.columns[j][1] = name}

\* try: float(data[name].agg()): the aggregate of the one column of that name;
\* a text column, or several sub-columns under one first-level name, raise
TryAgg(data, name, agg) ==
    LET js == ColsNamed(data, name)
        j == FirstIdx(js)
        Agg(v) == CASE agg = "mean" -> SeqMean(v)
                    [] agg = "max" -> SeqMax(v)
                    [] agg = "min" -> SeqMin(v)
                    [] agg = "sum" -> SeqSum(v)
    IN  IF Cardinality(js) = 1 /\ DType(data, j) = "number"
        THEN [ok |-> TRUE, v |-> Agg(data.cols[j])]
        ELSE [ok |-> FALSE, v |-> NaN]

\* avg_volume: the mean of the Volume column, 0 when absent or unusable
AvgVolume(data) ==
    IF HasColumn(data, "Volume") /\ TryAgg(data, "Volume", "mean").ok
    THEN TryAgg(data, "Volume", "mean").v
    ELSE Num(0, 1)

\* ------------------------------------------------------------ UI outcomes
\* What a UI function does: the elements it emits, and the exception that
\* leaves it ("" when it returns).
Ui(exc, out) == [exc |-> exc, out |-> out]

Info(msg) == [op |-> "info", msg |-> msg]

Warning(msg) == [op |-> "warning", msg |-> msg]

WarningFor(msg, ts) == [op |-> "warning", msg |-> msg, tickers |-> ts]

Metric(label, value) == [op |-> "metric", label |-> label, value |-> value]

MetricFor(ticker, label, value) ==
    [op |-> "metric", label |-> label, ticker |-> ticker, value |-> value]

MetricDelta(ticker, label, value, delta) ==
    [op |-> "metric", label |-> label, ticker |-> ticker, value |-> value,
     delta |-> delta]

Write(label, value) == [op |-> "write", label |-> label, value |-> value]

PlotlyChart(traces) == [op |-> "plotly_chart", traces |-> traces]

\* ------------------------------------------------------------- metrics.py
create_metrics_dashboard(data, ticker) ==
    LET close == _get_close_series(data)
    IN  IF close.kind = "None" \/ Len(close.values) < 2
        THEN Ui("", <<Info("Not enough data for metrics.")>>)
        ELSE
          LET current_price == close.values[Len(close.values)]
              start_price == close.values[1]
          IN  IF start_price = 0 THEN Ui("ZeroDivisionError", <<>>)
              ELSE Ui("", <<MetricFor(ticker, "Current Price", Num(current_price, 1)),
                            Metric("Total Return", TotalReturn(current_price, start_price)),
                            Metric("Volatility", Std(PctChange(close.values))),
                            Metric("Average Volume", AvgVolume(data))>>)

\* one table row of create_comparison_metrics
ComparisonRow(data, ticker) ==
    LET close == _get_close_series(data)
        current_price == close.values[Len(close.values)]
        start_price == close.values[1]
    IN  [Ticker |-> ticker,
         CurrentPrice |-> Num(current_price, 1),
         TotalReturn |-> TotalReturn(current_price, start_price),
         Volatility |-> Std(PctChange(close.values)),
         AvgVolume |-> AvgVolume(data)]

create_comparison_metrics(data_dict, tickers) ==
    LET has(i) == tickers[i] \in DOMAIN data_dict
        \* None has no attribute .empty
        attrErr(i) == has(i) /\ data_dict[tickers[i]].kind = "None"
        row(i) == /\ has(i) /\ ~attrErr(i)
                  /\ ~Empty(data_dict[tickers[i]])
                  /\ _get_close_series(data_dict[tickers[i]]).kind # "None"
        zeroDiv(i) == row(i) /\ _get_close_series(data_dict[tickers[i]]).values[1] = 0
        bad == {i \in DOMAIN tickers : attrErr(i) \/ zeroDiv(i)}
        rows == SortedSeq({i \in DOMAIN tickers : row(i)})
    IN  IF bad # {}
        THEN Ui(IF attrErr(FirstIdx(bad)) THEN "AttributeError" ELSE "ZeroDivisionError", <<>>)
        ELSE IF rows # <<>>
        THEN Ui("", <<[op |-> "dataframe",
                       rows |-> [k \in DOMAIN rows |->
                                   ComparisonRow(data_dict[tickers[rows[k]]], tickers[rows[k]])]]>>)
        ELSE Ui("", <<Info("No valid data to compare.")>>)

\* --------------------------------------------------------------- plots.py
\* the window of the moving-average trace
ChartWindow == 30

plot_financial_data_Window5(data, ticker) ==
    LET close == _get_close_series(data)
    IN  IF close.kind = "None" \/ Len(close.values) < 2
        THEN Ui("", <<WarningFor("Not enough price data to plot", <<ticker>>)>>)
        ELSE
          LET price == [name |-> "Close Price", y |-> close.values]
              avg == [name |-> "30-Day Moving Average",
                      y |-> RollingMean(close, 5).values]
              volume == [name |-> "Volume",
                         y |-> data.cols[FirstIdx(ColsNamed(data, "Volume"))]]
          IN  Ui("", <<PlotlyChart(IF HasColumn(data, "Volume")
                                   THEN <<price, avg, volume>>
                                   ELSE <<price, avg>>)>>)

\* the chart without the volume bars
plot_financial_data_NoVolume(data, ticker) ==
    LET close == _get_close_series(data)
    IN  IF close.kind = "None" \/ Len(close.values) < 2
        THEN Ui("", <<WarningFor("Not enough price data to plot", <<ticker>>)>>)
        ELSE
          LET price == [name |-> "Close Price", y |-> close.values]
              avg == [name |-> "30-Day Moving Average",
                      y |-> RollingMean(close, 30).values]
          IN  Ui("", <<PlotlyChart(<<price, avg>>)>>)

plot_financial_data(data, ticker) ==
    LET close == _get_close_series(data)
    IN  IF close.kind = "None" \/ Len(close.values) < 2
        THEN Ui("", <<WarningFor("Not enough price data to plot", <<ticker>>)>>)
        ELSE
          LET price == [name |-> "Close Price", y |-> close.values]
              avg == [name |-> "30-Day Moving Average",
                      y |-> RollingMean(close, ChartWindow).values]
              volume == [name |-> "Volume",
                         y |-> data.cols[FirstIdx(ColsNamed(data, "Volume"))]]
          IN  Ui("", <<PlotlyChart(IF HasColumn(data, "Volume")
                                   THEN <<price, avg, volume>>
                                   ELSE <<price, avg>>)>>)

\* close / close.iloc[0] * 100 in float arithmetic: x/0 is infinite, 0/0 NaN
Normalized(v) ==
    [k \in DOMAIN v |->
        IF v[1] = 0 /\ v[k] = 0 THEN NaN ELSE Num(100 * v[k], v[1])]

\* data_dict.get(ticker)
DictGet(data_dict, ticker) ==
    IF ticker \in DOMAIN data_dict THEN data_dict[ticker] ELSE None

plot_comparison_chart(data_dict, tickers) ==
    LET close(i) == _get_close_series(DictGet(data_dict, tickers[i]))
        plotted == SortedSeq({i \in DOMAIN tickers :
                                 close(i).kind # "None" /\ Len(close(i).values) >= 2})
    IN  Ui("", <<PlotlyChart([k \in DOMAIN plotted |->
                               [name |-> tickers[plotted[k]],
                                y |-> Normalized(close(plotted[k]).values)]])>>)

\* ------------------------------------------- financialdata.py: the charts
\* the length of the colour palette
PaletteLen == 8

\* ((close / start_price) - 1) * 100, start_price not 0
NormalizedReturn(v) == [k \in DOMAIN v |-> Num(100 * (v[k] - v[1]), v[1])]

fd_plot_comparison_chart(data_dict, tickers) ==
    LET close(i) == fd_get_close_series(data_dict[tickers[i]])
        skip(i) == \/ tickers[i] \notin DOMAIN data_dict
                   \/ close(i).kind = "None"
                   \/ Len(close(i).values) < 2
                   \/ close(i).values[1] = 0
        skipped == SortedSeq({i \in DOMAIN tickers : skip(i)})
        plotted == SortedSeq({i \in DOMAIN tickers : ~skip(i)})
        traces == [k \in DOMAIN plotted |->
                     [name |-> tickers[plotted[k]],
                      y |-> NormalizedReturn(close(plotted[k]).values),
                      color |-> (plotted[k] - 1) % PaletteLen]]
    IN  IF plotted = <<>>
        THEN Ui("", <<Warning("No valid data to plot for the selected tickers and date range.")>>)
        ELSE IF skipped # <<>>
        THEN Ui("", <<WarningFor("Skipped tickers (no Close data found)",
                                 [k \in DOMAIN skipped |-> tickers[skipped[k]]])>>)
        ELSE Ui("", <<PlotlyChart(traces)>>)

fd_plot_financial_data(data, ticker) ==
    LET close == fd_get_close_series(data)
    IN  IF close.kind # "None" /\ Len(close.values) >= 2
        THEN
          LET price == [name |-> "Close Price", y |-> close.values]
              avg == [name |-> "30-Day Moving Average",
                      y |-> RollingMean(close, ChartWindow).values]
              volume == [name |-> "Volume",
                         y |-> data.cols[FirstIdx(ColsNamed(data, "Volume"))]]
          IN  Ui("", <<PlotlyChart(IF HasColumn(data, "Volume")
                                   THEN <<price, avg, volume>>
                                   ELSE <<price, avg>>)>>)
        ELSE Ui("", <<PlotlyChart(<<>>)>>)

\* ------------------------------------------ financialdata.py: the metrics
PeriodHigh_NoTry(data, close) ==
    IF HasColumn(data, "High")
    THEN TryAgg(data, "High", "max").v
    ELSE SeqMax(close.values)

\* the period high (low): the High (Low) column when present and usable,
\* else the maximum (minimum) of the Close series
PeriodHigh(data, close) ==
    IF HasColumn(data, "High") /\ TryAgg(data, "High", "max").ok
    THEN TryAgg(data, "High", "max").v
    ELSE SeqMax(close.values)

PeriodLow(data, close) ==
    IF HasColumn(data, "Low") /\ TryAgg(data, "Low", "min").ok
    THEN TryAgg(data, "Low", "min").v
    ELSE SeqMin(close.values)

fd_create_metrics_dashboard_NoPriorGuard(data, ticker) ==
    IF data.kind = "None" \/ Empty(data) THEN Ui("", <<>>)
    ELSE
      LET close == fd_get_close_series(data)
          n == Len(close.values)
          current_price == close.values[n]
          previous_price == IF n > 1 THEN close.values[n - 1] ELSE current_price
          price_change_pct ==
              IF previous_price # 0
              THEN Num(100 * (current_price - previous_price), previous_price)
              ELSE Num(0, 1)
      IN  IF close.kind = "None" \/ n = 0 THEN Ui("", <<>>)
          ELSE IF previous_price = 0 THEN Ui("ZeroDivisionError", <<>>)
          ELSE Ui("", <<MetricDelta(ticker, "Current Price", Num(current_price, 1),
                                    price_change_pct),
                        Metric("52W High", PeriodHigh(data, close)),
                        Metric("52W Low", PeriodLow(data, close)),
                        Metric("Avg Volume", AvgVolume(data))>>)

fd_create_metrics_dashboard(data, ticker) ==
    IF data.kind = "None" \/ Empty(data) THEN Ui("", <<>>)
    ELSE
      LET close == fd_get_close_series(data)
          n == Len(close.values)
          current_price == close.values[n]
          previous_price == IF n > 1 THEN close.values[n - 1] ELSE current_price
          price_change_pct ==
              IF previous_price # 0
              THEN Num(100 * (current_price - previous_price), previous_price)
              ELSE Num(0, 1)
      IN  IF close.kind = "None" \/ n = 0 THEN Ui("", <<>>)
          ELSE Ui("", <<MetricDelta(ticker, "Current Price", Num(current_price, 1),
                                    price_change_pct),
                        Metric("52W High", PeriodHigh(data, close)),
                        Metric("52W Low", PeriodLow(data, close)),
                        Metric("Avg Volume", AvgVolume(data))>>)

\* the elements create_comparison_metrics writes into one ticker's column;
\* High, Low and Volume are read without a try
fd_comparison_column(data, ticker) ==
    LET close == fd_get_close_series(data)
        n == Len(close.values)
        start_price == close.values[1]
        total_return == IF start_price # 0
                        THEN TotalReturn(close.values[n], start_price)
                        ELSE Num(0, 1)
        unusable(name) == HasColumn(data, name) /\ ~TryAgg(data, name, "max").ok
    IN  IF close.kind = "None" \/ n = 0
        THEN Ui("", <<WarningFor("No price data for", <<ticker>>)>>)
        ELSE IF unusable("High") \/ unusable("Low") \/ unusable("Volume")
        THEN Ui("TypeError", <<>>)
        ELSE Ui("", <<MetricDelta(ticker, "Price", Num(close.values[n], 1), total_return)>>
                    \o (IF HasColumn(data, "High")
                        THEN <<Write("High", TryAgg(data, "High", "max").v)>> ELSE <<>>)
                    \o (IF HasColumn(data, "Low")
                        THEN <<Write("Low", TryAgg(data, "Low", "min").v)>> ELSE <<>>)
                    \o <<Write("Avg Volume",
                               IF HasColumn(data, "Volume")
                               THEN TryAgg(data, "Volume", "mean").v ELSE Num(0, 1))>>)

\* the outcome of a loop of UI steps: the elements emitted up to and
\* including the first step that raises, and that step's exception
RECURSIVE RunAll(_)
RunAll(steps) ==
    IF steps = <<>> THEN Ui("", <<>>)
    ELSE IF steps[1].exc # "" THEN steps[1]
    ELSE Ui(RunAll(Tail(steps)).exc, steps[1].out \o RunAll(Tail(steps)).out)

fd_create_comparison_metrics(data_dict, tickers) ==
    RunAll([i \in DOMAIN tickers |->
               fd_comparison_column(DictGet(data_dict, tickers[i]), tickers[i])])

\* lines 640-694: one ticker's tab of the individual stock details
fd_detail_tab(data, ticker) ==
    LET close == fd_get_close_series(data)
        n == Len(close.values)
        opt(name, agg) ==
            IF HasColumn(data, name) /\ TryAgg(data, name, agg).ok
            THEN TryAgg(data, name, agg).v ELSE None
        stats == <<Write("High", opt("High", "max")),
                   Write("Low", opt("Low", "min")),
                   Write("Avg Volume", AvgVolume(data))>>
    IN  IF close.kind = "None" \/ n = 0
        THEN Ui("", <<WarningFor("No price data for", <<ticker>>)>> \o stats)
        ELSE IF close.values[1] = 0 THEN Ui("ZeroDivisionError", <<>>)
        ELSE Ui("", <<MetricDelta(ticker, "Current Price", Num(close.values[n], 1),
                                  TotalReturn(close.values[n], close.values[1]))>>
                    \o stats)

\* ----------------------------------------------------- the shell's helpers
\* A Python dict: its keys in insertion order, and its values.
EmptyDict == [keys |-> <<>>, val |-> <<>>]

\* an assignment that keeps empty tables out of the mapping
DictSet_SkipsEmpty(dd, k, v) ==
    IF v.kind # "None" /\ Empty(v) THEN dd
    ELSE [keys |-> IF k \in DOMAIN dd.val THEN dd.keys ELSE Append(dd.keys, k),
          val |-> (k :> v) @@ dd.val]

\* an assignment that keeps the first table stored under a key
DictSet_KeepsFirst(dd, k, v) ==
    IF k \in DOMAIN dd.val THEN dd
    ELSE [keys |-> Append(dd.keys, k), val |-> (k :> v) @@ dd.val]

\* data_dict[k] = v
DictSet(dd, k, v) ==
    [keys |-> IF k \in DOMAIN dd.val THEN dd.keys ELSE Append(dd.keys, k),
     val |-> (k :> v) @@ dd.val]

Subheader(msg) == [op |-> "subheader", msg |-> msg]

Divider == [op |-> "divider"]

\* what the external fetch can hand back: no table, an empty table (with or
\* without columns), tables without a Close column, and price tables
Tickers == {"AAPL", "MSFT"}

AllColumns == <<<<"Close">>, <<"High">>, <<"Low">>, <<"Volume">>>>

\* a price history longer than the window of the moving-average trace
LongTable ==
    DataFrame(FALSE, <<<<"Close">>>>, [k \in 1..LongRows |-> k % (MaxVal + 1)])

FetchResults ==
    {None,
     LongTable,
     DataFrame(FALSE, <<>>, <<>>),
     DataFrame(FALSE, AllColumns, <<>>),
     DataFrame(FALSE, <<<<"Note">>>>, <<1, 2>>),
     DataFrame(FALSE, <<<<"Volume">>>>, <<1, 2>>),
     DataFrame(FALSE, AllColumns, <<0, 1>>),
     DataFrame(FALSE, AllColumns, <<1, 2>>),
     DataFrame(FALSE, AllColumns, <<2>>),
     DataFrame(TRUE, <<<<"Close", "AAPL">>, <<"Volume", "AAPL">>>>, <<2, 1>>)}

\* the exception a failing fetch raises
FetchError == "ConnectionError"

\* except Exception: the classes the handler of the click catches
OnlyFetchErrors(exc) == exc = FetchError

Handled(exc) ==
    exc \in {"ConnectionError", "ZeroDivisionError", "AttributeError",
             "TypeError", "ValueError", "KeyError"}

\* lines 199-205 of app.py, 726-731 of financialdata.py: the error banner
ErrorBanner(exc) ==
    <<[op |-> "error", msg |-> "Error fetching data", exc |-> exc],
      [op |-> "expander", msg |-> "Show error details"]>>

\* the footer after the trigger block
Footer == <<[op |-> "markdown", msg |-> "---"],
            [op |-> "markdown", msg |-> "Built with Streamlit & yfinance"]>>

\* missing_raw: no entry, None, or an empty table
MissingRaw(dd, ts) ==
    SelectSeq(ts, LAMBDA t : \/ t \notin DOMAIN dd.val
                             \/ dd.val[t].kind = "None"
                             \/ Empty(dd.val[t]))

\* missing_close of app.py (line 169)
MissingClose(dd, ts) ==
    SelectSeq(ts, LAMBDA t : /\ t \in DOMAIN dd.val
                             /\ dd.val[t].kind # "None"
                             /\ Empty(dd.val[t]))

\* missing_close of financialdata.py (line 536)
fd_MissingClose(dd, ts) ==
    SelectSeq(ts, LAMBDA t : /\ t \in DOMAIN dd.val
                             /\ fd_get_close_series(dd.val[t]).kind = "None")

\* the preview of one ticker's raw data: head(), or repr() when head() raises
Preview(dd, t) ==
    <<[op |-> "caption", msg |-> "Preview of raw data", ticker |-> t],
      [op |-> IF dd.val[t].kind = "None" THEN "write" ELSE "dataframe",
       preview |-> t]>>

RECURSIVE Previews(_, _)
Previews(dd, ts) ==
    IF ts = <<>> THEN <<>> ELSE Preview(dd, ts[1]) \o Previews(dd, Tail(ts))

\* the warnings after the fetch loop
Warnings(raw, close, dd) ==
    (IF raw # <<>> THEN <<WarningFor("No raw data fetched for", raw)>> ELSE <<>>)
    \o (IF close # <<>>
        THEN <<WarningFor("Fetched data missing Close prices for", close)>>
             \o Previews(dd, close)
        ELSE <<>>)

\* lines 565-615 of financialdata.py: the additional insights of one table;
\* len(None) raises TypeError
fd_insights(data) ==
    LET close == fd_get_close_series(data)
        na(label) == Write(label, None)
        high == IF HasColumn(data, "High") /\ TryAgg(data, "High", "max").ok
                THEN Write("Highest Price", TryAgg(data, "High", "max").v)
                ELSE na("Highest Price")
        low == IF HasColumn(data, "Low") /\ TryAgg(data, "Low", "min").ok
               THEN Write("Lowest Price", TryAgg(data, "Low", "min").v)
               ELSE na("Lowest Price")
        price == IF close.kind # "None" /\ Len(close.values) > 0
                 THEN <<Write("Average Price", SeqMean(close.values)),
                        Write("Price Volatility",
                              Std([k \in DOMAIN close.values |-> Num(close.values[k], 1)]))>>
                 ELSE <<na("Average Price"), na("Price Volatility")>>
        naVolume == <<na("Total Volume"), na("Average Daily Volume"),
                      na("Highest Volume Day")>>
        vol == data.cols[FirstIdx(ColsNamed(data, "Volume"))]
        volume == IF HasColumn(data, "Volume")
                  THEN IF ~TryAgg(data, "Volume", "sum").ok THEN naVolume
                       ELSE IF vol = <<>>
                       \* int(max()) of an empty column raises after two lines
                       THEN <<Write("Total Volume", Num(0, 1)),
                              Write("Average Daily Volume", NaN)>> \o naVolume
                       ELSE <<Write("Total Volume", Num(SeqSum(vol), 1)),
                              Write("Average Daily Volume", SeqMean(vol)),
                              Write("Highest Volume Day", SeqMax(vol))>>
                  ELSE naVolume
    IN  IF data.kind = "None"
        THEN Ui("TypeError", <<high, low>> \o price \o volume)
        ELSE Ui("", <<high, low>> \o price \o volume
                    \o <<Write("Trading Days", Num(PyLen(data), 1))>>)

\* the CSV download of the single-stock path: data.to_csv()
fd_download(data, ticker) ==
    IF data.kind = "None" THEN Ui("AttributeError", <<>>)
    ELSE Ui("", <<[op |-> "download_button", file |-> <<ticker>>,
                   columns |-> data.columns]>>)

\* lines 697-720: the columns of the comparison CSV, per key of the dict
RECURSIVE ComparisonColumns(_, _)
ComparisonColumns(dd, ks) ==
    IF ks = <<>> THEN <<>>
    ELSE (IF fd_get_close_series(dd.val[ks[1]]).kind # "None"
          THEN <<<<ks[1], "Close">>>> ELSE <<>>)
         \o (IF HasColumn(dd.val[ks[1]], "Volume")
                /\ TryAgg(dd.val[ks[1]], "Volume", "sum").ok
             THEN <<<<ks[1], "Volume">>>> ELSE <<>>)
         \o ComparisonColumns(dd, Tail(ks))

fd_download_comparison(dd) ==
    Ui("", <<[op |-> "download_button", file |-> dd.keys,
              columns |-> ComparisonColumns(dd, dd.keys)]>>)

\* ------------------------------------------------------------ the sidebar
\* datetime.now().date(), as a day number
Today == 1000

DatePresets ==
    {"Custom", "Last 1 Month", "Last 3 Months", "Last 6 Months",
     "Last 1 Year", "Last 2 Years"}

\* the presets the clicks of the model select: the custom range and one of
\* the fixed ones
PresetsTried == {"Custom", "Last 1 Month"}

\* timedelta(days = ...) of a preset
PresetDays(p) ==
    CASE p = "Last 1 Month" -> 30
      [] p = "Last 3 Months" -> 90
      [] p = "Last 6 Months" -> 180
      [] p = "Last 1 Year" -> 365
      [] p = "Last 2 Years" -> 730

\* the days the two date inputs of "Custom" offer: any day up to today
\* (max_value = today); each input is picked on its own
CustomDays == {Today - 1, Today}

\* the (start_date, end_date) pairs a date_preset yields
DateRanges(p) ==
    IF p = "Custom"
    THEN {[start_date |-> s, end_date |-> e] : s \in CustomDays, e \in CustomDays}
    ELSE {[start_date |-> Today - PresetDays(p), end_date |-> Today]}

\* st.sidebar.slider("Moving Average Days", 5, 100, 30): the lowest value and
\* the default
MaWindows == {5, 30}

\* the analysis options and the date range of a run of the script
Sidebars ==
    {[start_date |-> r.start_date, end_date |-> r.end_date,
      show_volume |-> v, ma_window |-> w] :
        r \in UNION {DateRanges(p) : p \in PresetsTried},
        v \in BOOLEAN, w \in MaWindows}

\* the widgets' defaults: Custom, 2023-01-01 to today, volume shown, 30 days
DefaultSidebar ==
    [start_date |-> Today - 1, end_date |-> Today, show_volume |-> TRUE, ma_window |-> 30]

FetchCall_DatesSwapped(ticker, sb) ==
    [ticker |-> ticker, start_date |-> sb.end_date, end_date |-> sb.start_date]

\* the call fetch_financial_data(ticker, start_date, end_date)
FetchCall(ticker, sb) ==
    [ticker |-> ticker, start_date |-> sb.start_date, end_date |-> sb.end_date]

\* ================================================================== state
VARIABLES
    data,       \* the argument of a function call
    window,     \* the window argument of rolling_average
    call,       \* the function called, "" before the call
    ret,        \* what the call returned or emitted
    variant,    \* the dashboard that runs: "app" (app.py) or "fd" (financialdata.py)
    sidebar,    \* start_date, end_date, show_volume and ma_window of the click
    mode,       \* analysis_mode of the click: "single" or "multi"
    tickers,    \* the ticker list of the click
    pc,         \* where the run of streamlit_app stands
    idx,        \* the position of the fetch loop in tickers
    data_dict,  \* the ticker-to-table mapping of the click
    out,        \* the elements rendered by the run so far
    last,       \* the last metrics or chart call of the run and its outcome
    escaped,    \* the exception that left streamlit_app, "" when none
    fetch_log,  \* the arguments fetch_financial_data was called with, in order
    fetched     \* the table the last call of fetch_log that returned gave back

shellVars == <<variant, sidebar, mode, tickers, pc, idx, data_dict, out, last, escaped, fetch_log, fetched>>

vars == <<data, window, call, ret,
          variant, sidebar, mode, tickers, pc, idx, data_dict, out, last, escaped, fetch_log, fetched>>

NoCall == [fn |-> "", u |-> Ui("", <<>>)]

\* no call of fetch_financial_data has returned in this run
NotFetched == [kind |-> "NotFetched"]

\* ------------------------------------------------- calls of the functions
\* the ticker the single-ticker calls are made for
T0 == "AAPL"

\* the second ticker of the two-ticker calls, and its table
T1 == "MSFT"

T1Table == DataFrame(FALSE, <<<<"Close">>>>, <<1, 2>>)

ShellIdle ==
    /\ variant = "app"
    /\ sidebar = DefaultSidebar
    /\ mode = "single"
    /\ tickers = <<>>
    /\ pc = "idle"
    /\ idx = 0
    /\ data_dict = EmptyDict
    /\ out = <<>>
    /\ last = NoCall
    /\ escaped = ""
    /\ fetch_log = <<>>
    /\ fetched = NotFetched

InitFn ==
    /\ data \in Inputs
    /\ window = 0
    /\ call = ""
    /\ ret = None
    /\ ShellIdle

Returns(name, value) ==
    /\ call' = name
    /\ ret' = value
    /\ UNCHANGED <<data, window>>
    /\ UNCHANGED shellVars

ReturnsFor(name, w, value) ==
    /\ call' = name
    /\ window' = w
    /\ ret' = value
    /\ UNCHANGED data
    /\ UNCHANGED shellVars

Call_get_close_series ==
    /\ call = ""
    /\ Returns("_get_close_series", _get_close_series(data))

Call_fd_get_close_series ==
    /\ call = ""
    /\ Returns("fd_get_close_series", fd_get_close_series(data))

Call_rolling_average ==
    /\ call = ""
    /\ \E w \in 1..MaxWindow :
          ReturnsFor("rolling_average", w, rolling_average(data, w))

Call_fd_rolling_average ==
    /\ call = ""
    /\ \E w \in 1..MaxWindow :
          ReturnsFor("fd_rolling_average", w, fd_rolling_average(data, w))

Call_create_metrics_dashboard ==
    /\ call = ""
    /\ Returns("create_metrics_dashboard", create_metrics_dashboard(data, T0))

Call_create_comparison_metrics ==
    /\ call = ""
    /\ Returns("create_comparison_metrics",
               create_comparison_metrics((T0 :> data), <<T0>>))

Call_plot_financial_data ==
    /\ call = ""
    /\ Returns("plot_financial_data", plot_financial_data(data, T0))

Call_fd_create_metrics_dashboard ==
    /\ call = ""
    /\ Returns("fd_create_metrics_dashboard", fd_create_metrics_dashboard(data, T0))

Call_fd_create_comparison_metrics ==
    /\ call = ""
    /\ Returns("fd_create_comparison_metrics",
               fd_create_comparison_metrics((T0 :> data), <<T0>>))

Call_fd_plot_financial_data ==
    /\ call = ""
    /\ Returns("fd_plot_financial_data", fd_plot_financial_data(data, T0))

Call_fd_detail_tab ==
    /\ call = ""
    /\ Returns("fd_detail_tab", fd_detail_tab(data, T0))

\* the comparison chart of two tickers: the argument for T0, a plain rising
\* Close series for T1
Call_plot_comparison_chart ==
    /\ call = ""
    /\ Returns("plot_comparison_chart",
               plot_comparison_chart((T0 :> data) @@ (T1 :> T1Table), <<T0, T1>>))

Call_fd_plot_comparison_chart ==
    /\ call = ""
    /\ Returns("fd_plot_comparison_chart",
               fd_plot_comparison_chart((T0 :> data) @@ (T1 :> T1Table), <<T0, T1>>))

NextFn ==
    \/ Call_get_close_series
    \/ Call_fd_get_close_series
    \/ Call_rolling_average
    \/ Call_fd_rolling_average
    \/ Call_create_metrics_dashboard
    \/ Call_create_comparison_metrics
    \/ Call_plot_financial_data
    \/ Call_fd_create_metrics_dashboard
    \/ Call_fd_create_comparison_metrics
    \/ Call_fd_plot_financial_data
    \/ Call_fd_detail_tab
    \/ Call_plot_comparison_chart
    \/ Call_fd_plot_comparison_chart

SpecFn == InitFn /\ [][NextFn]_vars

\* --------------------------------------------- the click: streamlit_app
TickerLists(m) ==
    IF m = "single" THEN SeqUpTo(Tickers, 1) ELSE SeqUpTo(Tickers, MaxTickers)

Init ==
    /\ data = None
    /\ window = 0
    /\ call = ""
    /\ ret = None
    /\ variant \in {"app", "fd"}
    /\ sidebar = DefaultSidebar
    /\ mode = "single"
    /\ tickers = <<>>
    /\ pc = "idle"
    /\ idx = 0
    /\ data_dict = EmptyDict
    /\ out = <<>>
    /\ last = NoCall
    /\ escaped = ""
    /\ fetch_log = <<>>
    /\ fetched = NotFetched

\* A step of the try block: fn emitted u.out after the elements pre; an
\* exception the handler catches ends the block with the error banner, any
\* other exception leaves streamlit_app.
Step(fn, pre, u, next) ==
    /\ last' = [fn |-> fn, u |-> u]
    /\ out' = out \o pre \o u.out
                  \o (IF u.exc # "" /\ Handled(u.exc) THEN ErrorBanner(u.exc) ELSE <<>>)
    /\ escaped' = IF u.exc # "" /\ ~Handled(u.exc) THEN u.exc ELSE ""
    /\ pc' = IF u.exc = "" THEN next
             ELSE IF Handled(u.exc) THEN "footer" ELSE "crashed"

Click_KeepsMapping ==
    /\ pc \in {"idle", "done", "crashed"}
    /\ \E m \in {"single", "multi"} :
          \E ts \in TickerLists(m) :
              /\ mode' = m
              /\ tickers' = ts
    /\ sidebar' = DefaultSidebar
    /\ pc' = "sidebar"
    /\ out' = <<>>
    /\ idx' = 1
    /\ data_dict' = data_dict
    /\ last' = NoCall
    /\ escaped' = ""
    /\ fetch_log' = <<>>
    /\ fetched' = NotFetched
    /\ UNCHANGED <<variant, data, window, call, ret>>

\* the button is clicked: the script runs from the top with fresh locals and
\* reads the analysis mode and the stock selection (lines 41-107)
Click ==
    /\ pc \in {"idle", "done", "crashed"}
    /\ \E m \in {"single", "multi"} :
          \E ts \in TickerLists(m) :
              /\ mode' = m
              /\ tickers' = ts
    /\ sidebar' = DefaultSidebar
    /\ pc' = "sidebar"
    /\ out' = <<>>
    /\ idx' = 1
    /\ data_dict' = EmptyDict
    /\ last' = NoCall
    /\ escaped' = ""
    /\ fetch_log' = <<>>
    /\ fetched' = NotFetched
    /\ UNCHANGED <<variant, data, window, call, ret>>

\* the run without the test of the ticker list: no ticker, no fetch
ReadSidebar_NoEmptyCheck ==
    /\ pc = "sidebar"
    /\ sidebar' \in Sidebars
    /\ pc' = IF tickers = <<>> THEN "classify" ELSE "fetch"
    /\ out' = <<[op |-> "spinner", tickers |-> tickers]>>
    /\ UNCHANGED <<variant, mode, tickers, idx, data_dict, last, escaped, fetch_log, fetched,
                   data, window, call, ret>>

\* the run reads the date range and the analysis options (lines 113-151) and
\* enters the trigger block: the spinner, or the warning of an empty list
ReadSidebar ==
    /\ pc = "sidebar"
    /\ sidebar' \in Sidebars
    /\ pc' = IF tickers = <<>> THEN "footer" ELSE "fetch"
    /\ out' = IF tickers = <<>>
              THEN <<Warning("Please select at least one stock to analyze.")>>
              ELSE <<[op |-> "spinner", tickers |-> tickers]>>
    /\ UNCHANGED <<variant, mode, tickers, idx, data_dict, last, escaped, fetch_log, fetched,
                   data, window, call, ret>>

\* fetch_financial_data returns a table for tickers[idx]
Fetch ==
    /\ pc = "fetch"
    /\ \E d \in FetchResults :
          /\ data_dict' = DictSet(data_dict, tickers[idx], d)
          /\ fetched' = d
    /\ fetch_log' = Append(fetch_log, FetchCall(tickers[idx], sidebar))
    /\ idx' = idx + 1
    /\ pc' = IF idx = Len(tickers) THEN "classify" ELSE "fetch"
    /\ UNCHANGED <<variant, sidebar, mode, tickers, out, last, escaped, data, window, call, ret>>

\* fetch_financial_data raises for tickers[idx]
FetchRaises ==
    /\ pc = "fetch"
    /\ fetch_log' = Append(fetch_log, FetchCall(tickers[idx], sidebar))
    /\ Step("fetch_financial_data", <<>>, Ui(FetchError, <<>>), "classify")
    /\ UNCHANGED <<variant, sidebar, mode, tickers, idx, data_dict, fetched,
                   data, window, call, ret>>

NoDataFound(dd, ts) ==
    <<[op |-> "error", msg |-> "No data found for",
       tickers |-> SelectSeq(ts, LAMBDA t : t \notin DOMAIN dd.val)]>>

\* app.py 166-179 and 195-198
app_Classify ==
    /\ pc = "classify"
    /\ variant = "app"
    /\ IF data_dict.keys # <<>>
       THEN /\ out' = out \o Warnings(MissingRaw(data_dict, tickers),
                                      MissingClose(data_dict, tickers), data_dict)
            /\ pc' = "metrics"
       ELSE /\ out' = out \o NoDataFound(data_dict, tickers)
            /\ pc' = "footer"
    /\ UNCHANGED <<variant, sidebar, mode, tickers, idx, data_dict, last, escaped, fetch_log, fetched,
                   data, window, call, ret>>

\* financialdata.py 533-548 and 722-724
fd_Classify ==
    /\ pc = "classify"
    /\ variant = "fd"
    /\ IF data_dict.keys # <<>>
       THEN /\ out' = out \o Warnings(MissingRaw(data_dict, tickers),
                                      fd_MissingClose(data_dict, tickers), data_dict)
            /\ pc' = "metrics"
       ELSE /\ out' = out \o NoDataFound(data_dict, tickers)
            /\ pc' = "footer"
    /\ UNCHANGED <<variant, sidebar, mode, tickers, idx, data_dict, last, escaped, fetch_log, fetched,
                   data, window, call, ret>>

\* app.py 181-185 and 190-191
app_Metrics ==
    /\ pc = "metrics"
    /\ variant = "app"
    /\ IF mode = "single"
       THEN Step("create_metrics_dashboard", <<Subheader("Key Metrics")>>,
                 create_metrics_dashboard(data_dict.val[tickers[1]], tickers[1]), "chart")
       ELSE Step("create_comparison_metrics", <<Subheader("Stock Comparison Metrics")>>,
                 create_comparison_metrics(data_dict.val, data_dict.keys), "chart")
    /\ UNCHANGED <<variant, sidebar, mode, tickers, idx, data_dict, fetch_log, fetched,
                   data, window, call, ret>>

\* app.py 186-188 and 192-194
app_Chart ==
    /\ pc = "chart"
    /\ variant = "app"
    /\ IF mode = "single"
       THEN Step("plot_financial_data",
                 <<Divider, Subheader("Price Chart & Analysis")>>,
                 plot_financial_data(data_dict.val[tickers[1]], tickers[1]), "footer")
       ELSE Step("plot_comparison_chart",
                 <<Divider, Subheader("Performance Comparison")>>,
                 plot_comparison_chart(data_dict.val, data_dict.keys), "footer")
    /\ UNCHANGED <<variant, sidebar, mode, tickers, idx, data_dict, fetch_log, fetched,
                   data, window, call, ret>>

\* financialdata.py 549-556 and 627-628
fd_Metrics ==
    /\ pc = "metrics"
    /\ variant = "fd"
    /\ IF mode = "single"
       THEN Step("create_metrics_dashboard", <<Subheader("Key Metrics")>>,
                 fd_create_metrics_dashboard(data_dict.val[tickers[1]], tickers[1]), "chart")
       ELSE Step("create_comparison_metrics", <<Subheader("Stock Comparison Metrics")>>,
                 fd_create_comparison_metrics(data_dict.val, data_dict.keys), "chart")
    /\ UNCHANGED <<variant, sidebar, mode, tickers, idx, data_dict, fetch_log, fetched,
                   data, window, call, ret>>

\* financialdata.py 558-562 and 630-634
fd_Chart ==
    /\ pc = "chart"
    /\ variant = "fd"
    /\ IF mode = "single"
       THEN Step("plot_financial_data",
                 <<Divider, Subheader("Price Chart & Analysis")>>,
                 fd_plot_financial_data(data_dict.val[tickers[1]], tickers[1]), "details")
       ELSE Step("plot_comparison_chart",
                 <<Divider, Subheader("Performance Comparison")>>,
                 fd_plot_comparison_chart(data_dict.val, data_dict.keys), "details")
    /\ UNCHANGED <<variant, sidebar, mode, tickers, idx, data_dict, fetch_log, fetched,
                   data, window, call, ret>>

\* financialdata.py 564-624 (insights and CSV of one stock) and 636-720
\* (a tab per stock, then the comparison CSV)
fd_Details ==
    /\ pc = "details"
    /\ variant = "fd"
    /\ IF mode = "single"
       THEN Step("insights", <<>>,
                 RunAll(<<fd_insights(data_dict.val[tickers[1]]),
                          fd_download(data_dict.val[tickers[1]], tickers[1])>>),
                 "footer")
       ELSE Step("detail_tabs", <<Subheader("Individual Stock Details")>>,
                 RunAll([k \in DOMAIN data_dict.keys |->
                            fd_detail_tab(data_dict.val[data_dict.keys[k]],
                                          data_dict.keys[k])]
                        \o <<fd_download_comparison(data_dict)>>),
                 "footer")
    /\ UNCHANGED <<variant, sidebar, mode, tickers, idx, data_dict, fetch_log, fetched,
                   data, window, call, ret>>

\* the footer after the trigger block; the run of the script ends
RenderFooter ==
    /\ pc = "footer"
    /\ out' = out \o Footer
    /\ pc' = "done"
    /\ UNCHANGED <<variant, sidebar, mode, tickers, idx, data_dict, last, escaped, fetch_log, fetched,
                   data, window, call, ret>>

Next ==
    \/ Click
    \/ ReadSidebar
    \/ Fetch
    \/ FetchRaises
    \/ app_Classify
    \/ fd_Classify
    \/ app_Metrics
    \/ fd_Metrics
    \/ app_Chart
    \/ fd_Chart
    \/ fd_Details
    \/ RenderFooter

Spec == Init /\ [][Next]_vars

\* ========================================================= the resolver
Resolvers == {"_get_close_series", "fd_get_close_series"}

IsTable == data.kind = "DataFrame"

\* the position of a label among the columns of the argument, 0 when absent
PosOf(col) == FirstIdx({j \in DOMAIN data.columns : data.columns[j] = col})

\* a label one of whose levels is in the alias set, whatever its case
Qualifies(col) == \E l \in DOMAIN col : Lower(col[l]) \in Aliases

\* C1: for every table with flat column labels that has a column named
\* exactly "Close", whatever the other columns and their order, both
\* resolvers return that column, with its values in their order.
C1_FlatCloseReturned ==
    (call \in Resolvers /\ IsTable /\ ~data.multi /\ PosOf(<<"Close">>) # 0)
        => ret = Series(<<"Close">>, data.cols[PosOf(<<"Close">>)])

\* C2: for every bare series, whatever its name, _get_close_series returns a
\* series named "Close" with the values of the input in their order.
C2_SeriesRenamed ==
    (call = "_get_close_series" /\ data.kind = "Series")
        => /\ ret.kind = "Series"
           /\ ret.name = <<"Close">>
           /\ ret.values = data.values

C2_Witness ==
    /\ call = "_get_close_series"
    /\ data.kind = "Series"
    /\ data.name = <<"Price">>
    /\ Len(data.values) >= 2
    /\ data.values[1] # data.values[2]
    /\ ret.name = <<"Close">>

C4_NoneGivesNone ==
    (call = "_get_close_series" /\ data = None) => ret = None

C4_Witness == call = "_get_close_series" /\ data = None /\ ret = None

\* ================================================== the rolling average
\* the sum of the w values of v ending at position i
RECURSIVE WindowSum(_, _, _)
WindowSum(v, i, w) == IF w = 0 THEN 0 ELSE v[i] + WindowSum(v, i - 1, w - 1)

\* C5: for every table with a resolvable Close series of length n and every
\* window w >= 1, rolling_average returns a series of length n whose element
\* at position i (counted from 1) is NaN for i < w and otherwise the mean of
\* the w Close values ending at i.
C5_RollingAverage ==
    (call = "rolling_average" /\ IsTable /\ _get_close_series(data).kind = "Series")
        => LET v == _get_close_series(data).values
           IN  /\ ret.kind = "Series"
               /\ Len(ret.values) = Len(v)
               /\ \A i \in DOMAIN v :
                     IF i < window THEN ret.values[i].nan
                     ELSE /\ ~ret.values[i].nan
                          /\ ret.values[i].den > 0
                          /\ ret.values[i].num * window
                                 = WindowSum(v, i, window) * ret.values[i].den

C5_Witness ==
    /\ call = "rolling_average"
    /\ IsTable
    /\ window = 2
    /\ _get_close_series(data).kind = "Series"
    /\ _get_close_series(data).values = <<1, 2, 0>>
    /\ ret.values = <<NaN, Num(3, 2), Num(2, 2)>>

\* ======================================================= the total return
\* the Close series a function works on
CloseFor(fn) ==
    IF fn \in {"create_metrics_dashboard", "create_comparison_metrics"}
    THEN _get_close_series(data) ELSE fd_get_close_series(data)

\* the total returns a call reported
ReportedReturns ==
    {ret.out[k].value : k \in {j \in DOMAIN ret.out :
                                  ret.out[j].op = "metric" /\ ret.out[j].label = "Total Return"}}
    \cup {ret.out[k].delta : k \in {j \in DOMAIN ret.out :
                                  ret.out[j].op = "metric" /\ "delta" \in DOMAIN ret.out[j]}}
    \cup UNION {{ret.out[k].rows[r].TotalReturn : r \in DOMAIN ret.out[k].rows} :
                   k \in {j \in DOMAIN ret.out : ret.out[j].op = "dataframe"}}

TotalReturnCalls ==
    {"create_metrics_dashboard", "create_comparison_metrics",
     "fd_create_comparison_metrics", "fd_detail_tab"}

\* C6: whenever the first value of the Close series is 0, every total-return
\* computation reports a total return of 0 and raises no arithmetic error.
C6_ZeroStartReportsZero ==
    (/\ call \in TotalReturnCalls
     /\ IsTable /\ ~Empty(data)
     /\ CloseFor(call).kind = "Series"
     /\ Len(CloseFor(call).values) >= 2
     /\ CloseFor(call).values[1] = 0)
        => /\ ret.exc = ""
           /\ ReportedReturns = {Num(0, 1)}

\* ================================================ the comparison chart
\* the resolver of the dashboard that runs
Resolved(d) == IF variant = "app" THEN _get_close_series(d) ELSE fd_get_close_series(d)

\* a ticker of the mapping whose table is empty or has no resolvable Close
Unplottable(t) ==
    \/ data_dict.val[t].kind = "None"
    \/ Empty(data_dict.val[t])
    \/ Resolved(data_dict.val[t]).kind = "None"

\* the charts, and the tickers of the skipped lists, a call emitted
ChartsOf(u) == {u.out[k] : k \in {j \in DOMAIN u.out : u.out[j].op = "plotly_chart"}}

SkippedBy(u) ==
    UNION {{u.out[k].tickers[i] : i \in DOMAIN u.out[k].tickers} :
              k \in {j \in DOMAIN u.out :
                        /\ u.out[j].op = "warning"
                        /\ u.out[j].msg = "Skipped tickers (no Close data found)"}}

TraceNames(chart) == {chart.traces[k].name : k \in DOMAIN chart.traces}

ComparisonChartDrawn ==
    /\ call = ""
    /\ mode = "multi"
    /\ last.fn = "plot_comparison_chart"

\* C7: plot_comparison_chart leaves every ticker whose table is empty or
\* whose Close column cannot be resolved out of the traces and reports it in
\* a skipped list, and still renders the chart, with a trace for every
\* remaining ticker.
C7_SkippedReportedChartDrawn ==
    ComparisonChartDrawn
        => LET ks == {data_dict.keys[k] : k \in DOMAIN data_dict.keys}
               bad == {t \in ks : Unplottable(t)}
           IN  /\ bad \subseteq SkippedBy(last.u)
               /\ \E c \in ChartsOf(last.u) : TraceNames(c) = ks \ bad

\* ===================================================== the click handler
\* the tickers of the warnings of the run that carry the message msg
ReportedUnder(msg) ==
    UNION {{out[k].tickers[i] : i \in DOMAIN out[k].tickers} :
              k \in {j \in DOMAIN out : out[j].op = "warning" /\ out[j].msg = msg}}

HasElement(op) == \E k \in DOMAIN out : out[k].op = op

\* a fetch of the run raised
FetchRaised == last.fn = "fetch_financial_data" /\ last.u.exc # ""

\* C8: in a multi-ticker click, when the fetch for one ticker raises, that
\* ticker alone is skipped and reported, and metrics and chart are still
\* rendered for the other tickers whose fetch succeeded.
C8_FetchFailureIsolated ==
    (/\ pc = "done" /\ mode = "multi" /\ FetchRaised
     /\ \E t \in DOMAIN data_dict.val :
           /\ t # tickers[idx]
           /\ ~Unplottable(t)
           /\ Len(Resolved(data_dict.val[t]).values) >= 2
           /\ Resolved(data_dict.val[t]).values[1] # 0)
        => /\ HasElement("plotly_chart")
           /\ HasElement("dataframe") \/ HasElement("metric")

\* C9: after the fetch loop a ticker whose table is empty is reported under
\* "No raw data fetched" and not under "missing Close prices"; a ticker whose
\* table is not empty but has no resolvable Close column is reported under
\* "missing Close prices", with a preview, and not under "No raw data fetched".
C9_DistinctClassification ==
    (call = "" /\ pc = "metrics")
        => \A i \in DOMAIN tickers :
              LET t == tickers[i]
                  d == data_dict.val[t]
                  raw == ReportedUnder("No raw data fetched for")
                  close == ReportedUnder("Fetched data missing Close prices for")
              IN  /\ (d.kind = "DataFrame" /\ Empty(d))
                         => t \in raw /\ t \notin close
                  /\ (d.kind = "DataFrame" /\ ~Empty(d) /\ Resolved(d).kind = "None")
                         => /\ t \in close /\ t \notin raw
                            /\ \E k \in DOMAIN out : out[k].op = "caption" /\ out[k].ticker = t

\* the elements of out from position k on
Suffix(k) == SubSeq(out, k, Len(out))

\* C10: every exception raised during a click by the fetch, the metrics
\* functions or the chart functions is caught inside streamlit_app: the error
\* banner is shown, nothing leaves streamlit_app, and the footer after the
\* trigger block is rendered.
C10_ExceptionsCaught ==
    /\ escaped = ""
    /\ pc # "crashed"
    /\ last.u.exc # ""
          => /\ pc \in {"footer", "done"}
             /\ \E k \in DOMAIN out : out[k] = ErrorBanner(last.u.exc)[1]
    /\ pc = "done"
          => /\ Len(out) >= Len(Footer)
             /\ Suffix(Len(out) - Len(Footer) + 1) = Footer

C10_Witness ==
    /\ variant = "app"
    /\ pc = "done"
    /\ last.fn = "create_comparison_metrics"
    /\ last.u.exc = "ZeroDivisionError"
    /\ \E k \in DOMAIN out : out[k] = ErrorBanner("ZeroDivisionError")[1]
    /\ Suffix(Len(out) - Len(Footer) + 1) = Footer

\* ========================================================= the date range
\* C11: fetch_financial_data is never called with a start date later than
\* the end date: a click whose custom range has start > end issues no fetch.
C11_StartNotAfterEnd ==
    \A k \in DOMAIN fetch_log : fetch_log[k].start_date <= fetch_log[k].end_date

\* ======================================================== the fetch order
\* the calls a run owes for the first n tickers of its list, in list order
ExpectedFetches(n) ==
    [k \in 1..n |-> [ticker |-> tickers[k],
                     start_date |-> sidebar.start_date,
                     end_date |-> sidebar.end_date]]

\* the run is past its fetch loop
PastFetchLoop == pc \in {"classify", "metrics", "chart", "details", "footer", "done"}

\* C12: in a click with tickers t1..tn in which no fetch raises,
\* fetch_financial_data is called exactly n times, with (ti, start, end) in
\* list order, one call after the other, and no metrics or chart operation
\* starts before the last fetch has returned.
C12_FetchesInListOrder ==
    /\ pc = "fetch"
          => /\ fetch_log = ExpectedFetches(idx - 1)
             /\ last = NoCall
             /\ out = <<[op |-> "spinner", tickers |-> tickers]>>
    /\ (PastFetchLoop /\ tickers # <<>> /\ ~FetchRaised)
          => fetch_log = ExpectedFetches(Len(tickers))

C12_Witness ==
    /\ pc = "done"
    /\ ~FetchRaised
    /\ tickers = <<"MSFT", "AAPL">>
    /\ sidebar.start_date < sidebar.end_date
    /\ Len(fetch_log) = 2
    /\ fetch_log[1].ticker = "MSFT" /\ fetch_log[2].ticker = "AAPL"
    /\ HasElement("plotly_chart")

\* ========================================================== empty inputs
\* C13: for every empty input, a table or a series with zero rows, with or
\* without a column named "Close", the resolvers return not-found.
C13_EmptyGivesNotFound ==
    (call \in Resolvers /\ data.kind \in {"Series", "DataFrame"} /\ PyLen(data) = 0)
        => ret = None

\* ====================================================== duplicate candidates
\* the positions of the labels of the argument that qualify
Candidates == {j \in DOMAIN data.columns : Qualifies(data.columns[j])}

\* C14: when several labels of a table qualify as the close column, the
\* resolvers return the qualifying column that comes first in label order.
C14_FirstCandidateWins ==
    (call \in Resolvers /\ IsTable /\ Cardinality(Candidates) >= 2)
        => ret = Series(data.columns[FirstIdx(Candidates)],
                        data.cols[FirstIdx(Candidates)])

\* ================================================ High, Low and Volume
\* the table has no column of that name, or the column cannot be reduced to
\* one number: it holds text, or it spans several sub-columns
AbsentOrUnusable(name) ==
    \/ ~HasColumn(data, name)
    \/ Cardinality(ColsNamed(data, name)) > 1
    \/ \E j \in ColsNamed(data, name) : DType(data, j) = "object"

\* the values the call showed in metrics labelled label
MetricValues(label) ==
    {ret.out[k].value :
        k \in {j \in DOMAIN ret.out : ret.out[j].op = "metric" /\ ret.out[j].label = label}}

\* the single-file dashboard got past its two early returns
fd_DashboardShown ==
    /\ call = "fd_create_metrics_dashboard"
    /\ IsTable /\ ~Empty(data)
    /\ fd_get_close_series(data).kind = "Series"
    /\ Len(fd_get_close_series(data).values) >= 1

\* the modular dashboard got to its aggregates
DashboardShown ==
    /\ call = "create_metrics_dashboard"
    /\ IsTable
    /\ _get_close_series(data).kind = "Series"
    /\ Len(_get_close_series(data).values) >= 2
    /\ _get_close_series(data).values[1] # 0

\* C15: the High, Low and Volume aggregates never raise: in the single-file
\* create_metrics_dashboard the period high (low) is the maximum (minimum)
\* of the Close series when the High (Low) column is absent or unusable, and
\* in both dashboards the mean volume is 0 when the Volume column is absent
\* or unusable.
C15_AggregatesFallBack ==
    /\ fd_DashboardShown
          => /\ ret.exc = ""
             /\ AbsentOrUnusable("High")
                   => MetricValues("52W High") = {SeqMax(fd_get_close_series(data).values)}
             /\ AbsentOrUnusable("Low")
                   => MetricValues("52W Low") = {SeqMin(fd_get_close_series(data).values)}
             /\ AbsentOrUnusable("Volume") => MetricValues("Avg Volume") = {Num(0, 1)}
    /\ DashboardShown
          => /\ ret.exc = ""
             /\ AbsentOrUnusable("Volume") => MetricValues("Average Volume") = {Num(0, 1)}

\* a text High column next to a Close that peaks elsewhere
C15_Witness ==
    /\ fd_DashboardShown
    /\ HasColumn(data, "High") /\ AbsentOrUnusable("High")
    /\ data.cols[1] = <<1, 2, 0>>
    /\ MetricValues("52W High") = {Num(2, 1)}
    /\ ~HasColumn(data, "Volume")
    /\ MetricValues("Avg Volume") = {Num(0, 1)}

\* ======================================================= degenerate series
\* the Close series of the argument has fewer than 2 points, or there is none
FewerThanTwoPoints ==
    \/ _get_close_series(data).kind = "None"
    \/ Len(_get_close_series(data).values) < 2

\* the operations of the elements a call emitted
OpsOf(u) == {u.out[k].op : k \in DOMAIN u.out}

\* C16: for every table whose Close series has fewer than 2 points, or
\* none, plot_financial_data and create_metrics_dashboard emit a
\* not-enough-data notice and render no chart and no metric, and
\* create_comparison_metrics and plot_comparison_chart complete without
\* raising.
C16_DegenerateSeriesDegrade ==
    (IsTable /\ FewerThanTwoPoints)
        => /\ call \in {"plot_financial_data", "create_metrics_dashboard"}
                 => /\ ret.exc = ""
                    /\ OpsOf(ret) \cap {"info", "warning"} # {}
                    /\ OpsOf(ret) \cap {"plotly_chart", "metric"} = {}
           /\ call \in {"create_comparison_metrics", "plot_comparison_chart"}
                 => ret.exc = ""

\* ================================================ a zero first Close value
\* the Close series the comparison chart called resolves for T0
ChartClose ==
    IF call = "plot_comparison_chart" THEN _get_close_series(data)
    ELSE fd_get_close_series(data)

\* C17: in plot_comparison_chart a ticker whose Close series starts with 0
\* gets no trace and is reported as skipped, while the other tickers are
\* plotted.
C17_ZeroStartSkipped ==
    (/\ call \in {"plot_comparison_chart", "fd_plot_comparison_chart"}
     /\ ChartClose.kind = "Series"
     /\ Len(ChartClose.values) >= 2
     /\ ChartClose.values[1] = 0)
        => /\ ret.exc = ""
           /\ T0 \in SkippedBy(ret)
           /\ \E c \in ChartsOf(ret) : TraceNames(c) = {T1}

\* ============================================================ volatility
\* the volatilities a metrics call reported: the "Volatility" metric of the
\* dashboard, the Volatility cells of the comparison table
ReportedVolatility ==
    MetricValues("Volatility")
    \cup UNION {{ret.out[k].rows[r].Volatility : r \in DOMAIN ret.out[k].rows} :
                   k \in {j \in DOMAIN ret.out : ret.out[j].op = "dataframe"}}

\* the Close series of the argument is constant, not 0, and has n points or more
ConstantClose(n) ==
    /\ IsTable /\ ~Empty(data)
    /\ _get_close_series(data).kind = "Series"
    /\ Len(_get_close_series(data).values) >= n
    /\ _get_close_series(data).values[1] # 0
    /\ \A k \in DOMAIN _get_close_series(data).values :
          _get_close_series(data).values[k] = _get_close_series(data).values[1]

\* C18: for every Close series that is constant, not 0, and has at least 2
\* points, create_metrics_dashboard and create_comparison_metrics report a
\* volatility of 0.00%.
C18_ConstantSeriesZeroVolatility ==
    (call \in {"create_metrics_dashboard", "create_comparison_metrics"} /\ ConstantClose(2))
        => /\ ret.exc = ""
           /\ ReportedVolatility = {[nan |-> FALSE, zero |-> TRUE]}

\* ========================================================= the prior price
\* two numbers of the model are the same number
SameNumber(a, b) == ~a.nan /\ ~b.nan /\ a.num * b.den = b.num * a.den

\* the deltas shown with the metrics labelled label
MetricDeltas(label) ==
    {ret.out[k].delta :
        k \in {j \in DOMAIN ret.out :
                  /\ ret.out[j].op = "metric"
                  /\ ret.out[j].label = label
                  /\ "delta" \in DOMAIN ret.out[j]}}

\* the prior price of a series: its second-to-last value, its only value
\* when it has one point
PriorPrice(v) == IF Len(v) >= 2 THEN v[Len(v) - 1] ELSE v[Len(v)]

\* the change from the prior price to the last one, in percent of the prior
\* price, 0 when the prior price is 0
ChangePct(v) ==
    IF PriorPrice(v) = 0 THEN Num(0, 1)
    ELSE Num(100 * (v[Len(v)] - PriorPrice(v)), PriorPrice(v))

\* C19: in the single-file create_metrics_dashboard the prior price is the
\* second-to-last Close value when the series has at least 2 points and the
\* last one when it has exactly 1, the percentage change is 0 whenever the
\* prior price is 0, and no case raises.
C19_PriorPricePolicy ==
    fd_DashboardShown
        => /\ ret.exc = ""
           /\ Cardinality(MetricDeltas("Current Price")) = 1
           /\ \A d \in MetricDeltas("Current Price") :
                 SameNumber(d, ChangePct(fd_get_close_series(data).values))

\* a series whose second-to-last value is 0 and whose last value is not
C19_Witness ==
    /\ fd_DashboardShown
    /\ fd_get_close_series(data).values = <<1, 0, 2>>
    /\ MetricDeltas("Current Price") = {Num(0, 1)}

\* ============================================== the moving-average trace
\* the table of the single stock of the run
SingleTable == data_dict.val[tickers[1]]

\* the moving-average traces of the charts of the last call
AverageTraces ==
    UNION {{c.traces[k].y : k \in {j \in DOMAIN c.traces :
                                      c.traces[j].name = "30-Day Moving Average"}} :
              c \in ChartsOf(last.u)}

\* y is the 30-period rolling mean of v: NaN before position 30, then the
\* mean of the 30 values ending at the position
ThirtyPeriodMean(y, v) ==
    /\ Len(y) = Len(v)
    /\ \A i \in DOMAIN v :
          IF i < 30 THEN y[i].nan
          ELSE /\ ~y[i].nan
               /\ y[i].den > 0
               /\ y[i].num * 30 = WindowSum(v, i, 30) * y[i].den

\* the price chart of a single stock was drawn
PriceChartDrawn ==
    /\ call = ""
    /\ mode = "single"
    /\ last.fn = "plot_financial_data"
    /\ last.u.exc = ""
    /\ Resolved(SingleTable).kind = "Series"
    /\ Len(Resolved(SingleTable).values) >= 2

\* C20: the moving-average trace of plot_financial_data always uses a window
\* of 30 periods: it is determined by the Close series alone, so two clicks
\* that differ only in the "Moving Average Days" of the sidebar draw the same
\* trace.
C20_MovingAverageWindowFixed ==
    PriceChartDrawn
        => /\ Cardinality(AverageTraces) = 1
           /\ \A y \in AverageTraces : ThirtyPeriodMean(y, Resolved(SingleTable).values)

\* a click with 5 moving-average days on a history of more than 30 rows
C20_Witness ==
    /\ PriceChartDrawn
    /\ variant = "app"
    /\ sidebar.ma_window = 5
    /\ SingleTable = LongTable
    /\ \E y \in AverageTraces : y[5].nan /\ ~y[30].nan

\* ================================================= no state across clicks
\* the tickers of the calls of fetch_financial_data of the run
FetchedTickers == {fetch_log[k].ticker : k \in DOMAIN fetch_log}

\* the tickers the rendered elements of the run name: the traces of its
\* charts (those of the price chart carry fixed names), the rows of its tables, its previews, the metrics shown for a
\* ticker
RenderedTickers ==
    (UNION {TraceNames(out[k]) : k \in {j \in DOMAIN out : out[j].op = "plotly_chart"}}
        \ {"Close Price", "30-Day Moving Average", "Volume"})
    \cup UNION {{out[k].rows[r].Ticker : r \in DOMAIN out[k].rows} :
                   k \in {j \in DOMAIN out :
                             out[j].op = "dataframe" /\ "rows" \in DOMAIN out[j]}}
    \cup {out[k].preview : k \in {j \in DOMAIN out :
                                     out[j].op = "dataframe" /\ "preview" \in DOMAIN out[j]}}
    \cup {out[k].ticker : k \in {j \in DOMAIN out :
                                    out[j].op = "metric" /\ "ticker" \in DOMAIN out[j]}}

\* C21: the ticker-to-table mapping is empty at the start of every click, so
\* whatever the clicks before, every entry of the mapping was fetched by the
\* running click for one of its own tickers, and only tickers of the running
\* click are rendered.
C21_MappingFreshEachClick ==
    /\ (pc = "sidebar" \/ (pc = "fetch" /\ idx = 1)) => data_dict = EmptyDict
    /\ DOMAIN data_dict.val \subseteq FetchedTickers
    /\ FetchedTickers \subseteq {tickers[k] : k \in DOMAIN tickers}
    /\ pc # "idle" => RenderedTickers \subseteq DOMAIN data_dict.val

\* a click for MSFT alone renders MSFT alone
C21_Witness ==
    /\ pc = "done"
    /\ mode = "multi"
    /\ tickers = <<"MSFT">>
    /\ data_dict.keys = <<"MSFT">>
    /\ RenderedTickers = {"MSFT"}
    /\ HasElement("plotly_chart")

\* ============================================ rolling_average never raises
\* the rows of an input, none for None
RowsOf(x) == IF x.kind = "None" THEN 0 ELSE PyLen(x)

\* C22: rolling_average of data.py returns a series for every input and
\* never raises; when the resolver returns not-found, None and tables
\* without a close column included, the series is all NaN and has one entry
\* per input row.
C22_RollingAverageTotal ==
    call = "rolling_average"
        => /\ ret.kind = "Series"
           /\ _get_close_series(data).kind = "None"
                 => /\ Len(ret.values) = RowsOf(data)
                    /\ \A k \in DOMAIN ret.values : ret.values[k] = NaN

\* ======================================== not-found exactly without a close
\* C23: for a table, _get_close_series of data.py returns not-found if and
\* only if no column label, flat or in any of its levels, equals one of the
\* aliases whatever its case; what it returns is always the column of such a
\* label, never another column.
C23_NotFoundIffNoCandidate ==
    (call = "_get_close_series" /\ IsTable)
        => /\ ret = None <=> Candidates = {}
           /\ ret # None
                 => \E j \in Candidates : ret = Series(data.columns[j], data.cols[j])

\* a table of prices and volumes without any close column
C23_Witness ==
    /\ call = "_get_close_series"
    /\ IsTable
    /\ data.columns = <<<<"High">>, <<"Volume">>>>
    /\ data.nrows >= 1
    /\ ret = None

\* ====================================================== an empty ticker list
\* the warning of the click without tickers
SelectWarning == Warning("Please select at least one stock to analyze.")

\* C24: when the button is clicked with an empty ticker list, no fetch is
\* issued and no metrics or chart operation runs; the trigger block shows the
\* "Please select at least one stock" warning and nothing else (the footer of
\* the page follows it).
C24_EmptyListOnlyWarns ==
    (tickers = <<>> /\ pc \in {"footer", "done"})
        => /\ fetch_log = <<>>
           /\ fetched = NotFetched
           /\ data_dict = EmptyDict
           /\ last = NoCall
           /\ out = IF pc = "footer" THEN <<SelectWarning>> ELSE <<SelectWarning>> \o Footer

C24_Witness ==
    /\ tickers = <<>>
    /\ mode = "multi"
    /\ pc = "done"
    /\ out[1] = SelectWarning
    /\ fetch_log = <<>>

\* ================================== an entry for every requested ticker
\* C25: whenever the fetch loop completes for a non-empty ticker list, the
\* mapping holds an entry for every requested ticker, empty tables included,
\* so the "No data found for" error is never shown.
C25_EveryTickerHasEntry ==
    /\ (pc \in {"classify", "metrics", "chart", "details"} /\ tickers # <<>>)
          => /\ DOMAIN data_dict.val = {tickers[k] : k \in DOMAIN tickers}
             /\ data_dict.keys # <<>>
    /\ \A k \in DOMAIN out :
          ~(out[k].op = "error" /\ "msg" \in DOMAIN out[k] /\ out[k].msg = "No data found for")

\* the loop completed with an empty table for MSFT and the run went on
C25_Witness ==
    /\ pc = "done"
    /\ tickers = <<"AAPL", "MSFT">>
    /\ ~FetchRaised
    /\ data_dict.val["MSFT"].kind = "DataFrame"
    /\ Empty(data_dict.val["MSFT"])
    /\ HasElement("plotly_chart")

\* ======================================================== repeated tickers
\* how often ticker t occurs among the first n tickers of the click
Occurrences(t, n) == Cardinality({k \in 1..n : tickers[k] = t})

\* the calls of fetch_financial_data for ticker t
CallsFor(t) == Cardinality({k \in DOMAIN fetch_log : fetch_log[k].ticker = t})

\* no two elements of a sequence of records agree in what f takes from them
NoRepeat(s, f) == \A i, j \in DOMAIN s : i # j => s[i][f] # s[j][f]

\* the loop has fetched idx - 1 tickers and none raised
FetchedSoFar == pc \in {"fetch", "classify"} /\ idx > 1

\* in every state: a call per occurrence, the table of the latest fetch under
\* its ticker, and every symbol once in the keys, the comparison table and
\* the comparison chart
RepeatsFetchedAndMerged ==
    /\ FetchedSoFar
          => /\ \A t \in Tickers : CallsFor(t) = Occurrences(t, idx - 1)
             /\ data_dict.val[tickers[idx - 1]] = fetched
    /\ Distinct(data_dict.keys)
    /\ mode = "multi"
          => \A k \in DOMAIN out :
                /\ (out[k].op = "dataframe" /\ "rows" \in DOMAIN out[k])
                      => NoRepeat(out[k].rows, "Ticker")
                /\ out[k].op = "plotly_chart" => NoRepeat(out[k].traces, "name")

\* in every step of the loop: a fetch leaves the tables of the other tickers
\* as they are
FetchKeepsOthers ==
    (pc = "fetch" /\ pc' \in {"fetch", "classify"})
        => \A t \in DOMAIN data_dict.val :
              t # tickers[idx] => data_dict'.val[t] = data_dict.val[t]

\* C26: if a ticker symbol occurs k > 1 times in the ticker list of a
\* multi-stock click, fetch_financial_data is called k times for it, the
\* mapping keeps only the table of the last of those fetches, and the symbol
\* appears at most once in the comparison metrics and the comparison chart.
C26_RepeatedTickerLastWins ==
    []RepeatsFetchedAndMerged /\ [][FetchKeepsOthers]_vars

\* AAPL twice: two calls, one key, one row, one trace
C26_Witness ==
    /\ pc = "done"
    /\ mode = "multi"
    /\ tickers = <<"AAPL", "AAPL">>
    /\ CallsFor("AAPL") = 2
    /\ data_dict.keys = <<"AAPL">>
    /\ data_dict.val["AAPL"] = fetched
    /\ \E k \in DOMAIN out : out[k].op = "plotly_chart" /\ Len(out[k].traces) = 1
    /\ \E k \in DOMAIN out :
          out[k].op = "dataframe" /\ "rows" \in DOMAIN out[k] /\ Len(out[k].rows) = 1

\* ===================================================== the volume toggle
\* the analysis options with the "Show Volume" toggle the other way
ToggleTwin(sb) == [sb EXCEPT !.show_volume = ~sb.show_volume]

\* the volume traces of the charts of the last call
VolumeTraces ==
    UNION {{c.traces[k] : k \in {j \in DOMAIN c.traces : c.traces[j].name = "Volume"}} :
              c \in ChartsOf(last.u)}

\* the Volume column of the table of the single stock
VolumeColumn == SingleTable.cols[FirstIdx(ColsNamed(SingleTable, "Volume"))]

\* C27: the show-volume toggle does not influence a click: the fetch calls
\* of the run are those of the run with the toggle the other way, and the
\* price chart of a single stock carries the volume bars exactly when the
\* table has a Volume column, whatever the toggle.
C27_ShowVolumeIgnored ==
    /\ \A k \in DOMAIN fetch_log :
          fetch_log[k] = FetchCall(tickers[k], ToggleTwin(sidebar))
    /\ PriceChartDrawn
          => /\ VolumeTraces # {} <=> HasColumn(SingleTable, "Volume")
             /\ \A tr \in VolumeTraces : tr.y = VolumeColumn

\* the toggle is off and the volume bars are drawn
C27_Witness ==
    /\ PriceChartDrawn
    /\ pc = "done"
    /\ variant = "app"
    /\ ~sidebar.show_volume
    /\ Len(fetch_log) = 1
    /\ HasColumn(SingleTable, "Volume")
    /\ \E tr \in VolumeTraces : tr.y = VolumeColumn

====
